---- MODULE Spec2Model ----
(***************************************************************************)
(* Model of the garm AWS provider: the runner-spec builder                 *)
(* (internal/spec/spec.go) and the instance lifecycle manager (the EC2     *)
(* client wrapper AwsCli and the provider AwsProvider).                    *)
(*                                                                         *)
(* Strings that the code inspects (strings.HasPrefix) or compares are      *)
(* modelled as sequences of one-character strings; the cloud account is a  *)
(* sequence of instances in the provider's own order.                      *)
(***************************************************************************)
EXTENDS Integers, Sequences, FiniteSets, TLC

VARIABLES
    controllerID, \* AwsProvider.controllerID, set by NewAwsProvider
    cloud,      \* EC2 account: sequence of instances, in the provider's order
    nextId,     \* number of the next instance ID the provider will issue
    launched,   \* history: for each listed instance, who launched it and for what
    last,       \* the provider call that has just run: inputs, API requests, outcome
    prev,       \* what the orchestrator retains of the call before it
    bIn,        \* Build: the inputs of one call (SpecBuild)
    bOut,       \* Build: the outcome of that call (SpecBuild)
    procs       \* concurrent CreateInstance calls: their locals (SpecConc)

vars == <<controllerID, cloud, nextId, launched, last, prev, bIn, bOut, procs>>

(***************************************************************************)
(* Bounds of the model.                                                    *)
(***************************************************************************)
MaxInstances == 2      \* launches the account accepts in one behaviour
MaxOverride == 3       \* largest min_count / max_count override tried

(***************************************************************************)
(* String values.                                                          *)
(***************************************************************************)
Empty == <<>>                                   \* ""
Linux == <<"l", "i", "n", "u", "x">>            \* params.Linux
Windows == <<"w", "i", "n", "d", "o", "w", "s">> \* params.Windows
Darwin == <<"o", "s", "x">>                     \* an OS type outside {Linux, Windows}
Amd64 == <<"a", "m", "d", "6", "4">>            \* params.Amd64
Arm64 == <<"a", "r", "m", "6", "4">>            \* params.Arm64
IdPrefix == <<"i", "-">>                        \* "i-"
Digits == <<"1", "2", "3", "4", "5", "6", "7", "8", "9">>

Names == { <<"r", "1">>, <<"r", "2">> }
Pools == { <<"p", "A">>, <<"p", "B">> }
Controllers == { Empty, <<"c", "1">>, <<"c", "2">> }
OSTypes == { Linux, Windows, Darwin }
OSArchs == { Amd64, Arm64 }
Regions == { Empty, <<"e", "u">> }
Vpcs == { Empty, <<"v", "1">> }

\* strings.HasPrefix(s, prefix)
HasPrefix(s, prefix) ==
    /\ Len(s) >= Len(prefix)
    /\ SubSeq(s, 1, Len(prefix)) = prefix

\* the instance ID the provider issues for its k-th launch: "i-<k>"
InstanceId(k) == IdPrefix \o <<Digits[k]>>

(***************************************************************************)
(* encoding/base64: StdEncoding.EncodeToString over a byte sequence.       *)
(***************************************************************************)
B64Alphabet ==
    << "A", "B", "C", "D", "E", "F", "G", "H", "I", "J", "K", "L", "M",
       "N", "O", "P", "Q", "R", "S", "T", "U", "V", "W", "X", "Y", "Z",
       "a", "b", "c", "d", "e", "f", "g", "h", "i", "j", "k", "l", "m",
       "n", "o", "p", "q", "r", "s", "t", "u", "v", "w", "x", "y", "z",
       "0", "1", "2", "3", "4", "5", "6", "7", "8", "9", "+", "/" >>

B64Char(i) == B64Alphabet[i + 1]

B64Group(g) ==
    IF Len(g) = 3
    THEN << B64Char(g[1] \div 4),
            B64Char((g[1] % 4) * 16 + g[2] \div 16),
            B64Char((g[2] % 16) * 4 + g[3] \div 64),
            B64Char(g[3] % 64) >>
    ELSE IF Len(g) = 2
    THEN << B64Char(g[1] \div 4),
            B64Char((g[1] % 4) * 16 + g[2] \div 16),
            B64Char((g[2] % 16) * 4),
            "=" >>
    ELSE << B64Char(g[1] \div 4),
            B64Char((g[1] % 4) * 16),
            "=", "=" >>

RECURSIVE EncodeToString(_)
EncodeToString(bytes) ==
    IF Len(bytes) = 0 THEN Empty
    ELSE IF Len(bytes) <= 3 THEN B64Group(bytes)
    ELSE B64Group(SubSeq(bytes, 1, 3)) \o EncodeToString(SubSeq(bytes, 4, Len(bytes)))

(***************************************************************************)
(* Spec builder: internal/spec/spec.go                                     *)
(***************************************************************************)
DefaultCount == 1

\* The zero value of extraSpecs (no key decoded).
ZeroExtraSpecs ==
    [MinCount |-> 0, MaxCount |-> 0, VpcID |-> Empty,
     OpenInboundPorts |-> {}, BlockDeviceMapping |-> Empty]

\* data.ExtraSpecs as it reaches json.Unmarshal: absent (len 0), malformed
\* JSON, or an object that decodes to the given extraSpecs value.
NoExtraSpecs == [kind |-> "absent", decoded |-> ZeroExtraSpecs]
BadExtraSpecs == [kind |-> "malformed", decoded |-> ZeroExtraSpecs]
ExtraSpecsObject(e) == [kind |-> "object", decoded |-> e]

\* newExtraSpecsFromBootstrapData
newExtraSpecsFromBootstrapData(data) ==
    IF data.ExtraSpecs.kind = "absent"
    THEN [err |-> "none", spec |-> ZeroExtraSpecs]
    ELSE IF data.ExtraSpecs.kind = "malformed"
    THEN [err |-> "InvalidSpec", spec |-> ZeroExtraSpecs]
    ELSE [err |-> "none", spec |-> data.ExtraSpecs.decoded]

\* a merge that takes every count the extra specs set
CountOverridesWhenSet(n) == n # 0

\* (r *RunnerSpec) MergeExtraSpecs, with the comparison of a count override
\* against the default factored out
CountOverrides(n) == n > 1

MergeExtraSpecs(r, extraSpecs) ==
    [r EXCEPT
        !.MinCount = IF CountOverrides(extraSpecs.MinCount)
                     THEN extraSpecs.MinCount ELSE @,
        !.MaxCount = IF CountOverrides(extraSpecs.MaxCount)
                     THEN extraSpecs.MaxCount ELSE @,
        !.VpcID = IF extraSpecs.VpcID # Empty THEN extraSpecs.VpcID ELSE @,
        !.BlockDeviceMapping = IF extraSpecs.BlockDeviceMapping # Empty
                               THEN extraSpecs.BlockDeviceMapping ELSE @]

\* (r *RunnerSpec) ComposeUserData. gen is the outcome of the external
\* cloudconfig.GetCloudConfig for this request: [err, out].
ComposeUserData(r, gen) ==
    IF r.BootstrapParams.OSType \in {Linux, Windows}
    THEN IF gen.err
         THEN [err |-> "GenerateUserData", data |-> Empty]
         ELSE [err |-> "none", data |-> gen.out]
    ELSE [err |-> "UnsupportedOSType", data |-> Empty]

\* (r *RunnerSpec) SetUserData: the receiver after the call, and the error
SetUserData(r, gen) ==
    LET customData == ComposeUserData(r, gen)
    IN  IF customData.err # "none"
        THEN [err |-> customData.err, spec |-> r]
        ELSE IF Len(customData.data) = 0
        THEN [err |-> "EmptyUserData", spec |-> r]
        ELSE [err |-> "none",
              spec |-> [r EXCEPT !.UserData = EncodeToString(customData.data)]]

\* (r *RunnerSpec) Validate
Validate(r) ==
    IF r.Region = Empty THEN "InvalidSpec"
    ELSE IF r.BootstrapParams.Name = Empty THEN "InvalidSpec"
    ELSE "none"

NoSpec == [isNil |-> TRUE]

\* GetRunnerSpecFromBootstrapParams(cfg, data, controllerID); the
\* controllerID parameter (ctrl) is not read.
\* env holds the outcomes of the two external calls made for this request:
\* env.toolsFound (util.GetTools found a tool) and env.gen (GetCloudConfig).
GetRunnerSpecFromBootstrapParams(cfg, data, ctrl, env) ==
    IF ~env.toolsFound
    THEN [err |-> "UnsupportedPlatform", spec |-> NoSpec]
    ELSE LET extraSpecs == newExtraSpecsFromBootstrapData(data)
         IN  IF extraSpecs.err # "none"
             THEN [err |-> extraSpecs.err, spec |-> NoSpec]
             ELSE LET spec == [isNil |-> FALSE,
                               Region |-> cfg.Region,
                               BootstrapParams |-> data,
                               UserData |-> Empty,
                               MinCount |-> DefaultCount,
                               MaxCount |-> DefaultCount,
                               VpcID |-> cfg.VpcID,
                               OpenInboundPorts |-> {},
                               BlockDeviceMapping |-> Empty]
                      merged == MergeExtraSpecs(spec, extraSpecs.spec)
                      \* spec.SetUserData(): the returned error is not read
                      withData == SetUserData(merged, env.gen).spec
                  IN  [err |-> "none", spec |-> withData]

(***************************************************************************)
(* The EC2 API as the client uses it (aws-sdk-go-v2 service/ec2).  An      *)
(* instance is [InstanceId, Tags, State].                                  *)
(***************************************************************************)
Tag(k, v) == [Key |-> k, Value |-> v]

\* The provider lists an instance's tags in an order of its own choosing:
\* the describe response carries them rotated by `order` places.
TagOrders == 0..1

Rotate(s, k) ==
    IF Len(s) = 0 THEN s
    ELSE [i \in 1..Len(s) |-> s[((i - 1 + k) % Len(s)) + 1]]

Described(inst, order) == [inst EXCEPT !.Tags = Rotate(@, order)]

HasTag(inst, k, v) == \E i \in 1..Len(inst.Tags) : inst.Tags[i] = Tag(k, v)

RECURSIVE SelectInstances(_, _, _, _)
\* the instances of cl matching every tag filter and, when ids is not
\* {}, one of the ids; in the provider's order
SelectInstances(cl, filters, ids, order) ==
    IF Len(cl) = 0 THEN <<>>
    ELSE LET inst == Head(cl)
             rest == SelectInstances(Tail(cl), filters, ids, order)
         IN  IF /\ \A f \in filters : HasTag(inst, f[1], f[2])
                /\ (ids = {} \/ inst.InstanceId \in ids)
             THEN <<Described(inst, order)>> \o rest
             ELSE rest

\* ec2.Client.DescribeInstances with tag filters
DescribeInstancesByTags(cl, filters, order) == SelectInstances(cl, filters, {}, order)

\* ec2.Client.DescribeInstances with InstanceIds
DescribeInstancesByIds(cl, ids, order) == SelectInstances(cl, {}, ids, order)

InstanceExists(cl, id) == \E i \in 1..Len(cl) : cl[i].InstanceId = id

\* the account after the provider accepts a state-transition request on id
Transition(cl, id, next) ==
    [i \in 1..Len(cl) |->
        IF cl[i].InstanceId = id
        THEN [cl[i] EXCEPT !.State = next[cl[i].State]]
        ELSE cl[i]]

States == {"pending", "running", "stopping", "stopped", "shutting-down", "terminated"}

OnTerminate == [s \in States |-> IF s = "terminated" THEN s ELSE "shutting-down"]

\* StopInstances: accepted for a running, stopping or stopped instance
Stoppable == {"running", "stopping", "stopped"}
OnStop == [s \in States |-> IF s = "running" THEN "stopping" ELSE s]

\* StartInstances: accepted for a stopped, pending or running instance
Startable == {"stopped", "pending", "running"}
OnStart == [s \in States |-> IF s = "stopped" THEN "pending" ELSE s]

\* the state the provider reports for the listed instance id
StateOf(cl, id) == cl[CHOOSE i \in 1..Len(cl) : cl[i].InstanceId = id].State

Request(api, target) == [api |-> api, target |-> target]

(***************************************************************************)
(* AwsCli: the client wrapper.  Every operator returns the outcome of the  *)
(* call: status "ok" | "error" | "panic", the error kind, the value        *)
(* returned, the API requests made and the account afterwards.  `fail`     *)
(* says whether the provider fails the API request.                        *)
(***************************************************************************)
NoInstance == [isNil |-> TRUE]

\* AwsCli.StartInstance
StartInstance(cl, vmName, fail) ==
    LET req == Request("StartInstances", vmName)
    IN  IF fail \/ ~InstanceExists(cl, vmName) \/ StateOf(cl, vmName) \notin Startable
        THEN [status |-> "error", err |-> "ProviderError", calls |-> <<req>>,
              cloud |-> cl]
        ELSE [status |-> "ok", err |-> "none", calls |-> <<req>>,
              cloud |-> Transition(cl, vmName, OnStart)]

\* AwsCli.StopInstance
StopInstance(cl, vmName, fail) ==
    LET req == Request("StopInstances", vmName)
    IN  IF fail \/ ~InstanceExists(cl, vmName) \/ StateOf(cl, vmName) \notin Stoppable
        THEN [status |-> "error", err |-> "ProviderError", calls |-> <<req>>,
              cloud |-> cl]
        ELSE [status |-> "ok", err |-> "none", calls |-> <<req>>,
              cloud |-> Transition(cl, vmName, OnStop)]

\* a lookup that filters on the Name tag alone
FindFiltersNameOnly(tags) == { <<"Name", tags["Name"]>> }

\* AwsCli.FindInstanceByTags; tags is the map[string]string argument
FindFilters(tags) ==
    { <<"GARM_CONTROLLER_ID", tags["GARM_CONTROLLER_ID"]>>, <<"Name", tags["Name"]>> }

FindInstanceByTags(cl, tags, order, fail) ==
    LET req == Request("DescribeInstances", FindFilters(tags))
    IN  IF fail
        THEN [status |-> "error", err |-> "ProviderError", inst |-> NoInstance,
              calls |-> <<req>>]
        ELSE LET instances == DescribeInstancesByTags(cl, FindFilters(tags), order)
             IN  IF Len(instances) = 0
                 \* &instances[0] on an empty slice: index out of range
                 THEN [status |-> "panic", err |-> "IndexOutOfRange",
                       inst |-> NoInstance, calls |-> <<req>>]
                 ELSE [status |-> "ok", err |-> "none", inst |-> instances[1],
                       calls |-> <<req>>]

\* an error for a missing instance that wraps no sentinel
GetInstancePlainError == "InstanceNotFoundText"

\* the error AwsCli.GetInstance returns for an empty describe response: it
\* wraps errors.ErrNotFound, which errors.Is recognises through the wrapping
GetInstanceMissing == "NotFound"

\* AwsCli.GetInstance
CliGetInstance(cl, instance, order, fail) ==
    LET req == Request("DescribeInstances", {instance})
    IN  IF fail
        THEN [status |-> "error", err |-> "ProviderError", inst |-> NoInstance,
              calls |-> <<req>>]
        ELSE LET instances == DescribeInstancesByIds(cl, {instance}, order)
             IN  IF Len(instances) = 0
                 THEN [status |-> "error", err |-> GetInstanceMissing,
                       inst |-> NoInstance, calls |-> <<req>>]
                 ELSE [status |-> "ok", err |-> "none", inst |-> instances[1],
                       calls |-> <<req>>]

\* AwsCli.TerminateInstance
TerminateInstance(cl, vmName, fail) ==
    LET req == Request("TerminateInstances", vmName)
    IN  IF fail \/ ~InstanceExists(cl, vmName)
        THEN [status |-> "error", err |-> "ProviderError", calls |-> <<req>>,
              cloud |-> cl]
        ELSE [status |-> "ok", err |-> "none", calls |-> <<req>>,
              cloud |-> Transition(cl, vmName, OnTerminate)]

\* a listing that sends no filter
ListFiltersNone(poolID) == {}

\* AwsCli.ListDescribedInstances
ListFilters(poolID) == { <<"GARM_POOL_ID", poolID>> }

ListDescribedInstances(cl, poolID, order, fail) ==
    LET req == Request("DescribeInstances", ListFilters(poolID))
    IN  IF fail
        THEN [status |-> "error", err |-> "ProviderError", insts |-> <<>>,
              calls |-> <<req>>]
        ELSE [status |-> "ok", err |-> "none",
              insts |-> DescribeInstancesByTags(cl, ListFilters(poolID), order),
              calls |-> <<req>>]

\* spec.ControllerID as CreateRunningInstance reads it: the builder
\* assigns no controller ID to the spec it returns and nothing else writes
\* one, so the value read is that of a string never assigned, ""
SpecControllerID(spec) == Empty

\* the TagSpecifications of the RunInstances request in CreateRunningInstance
RunInstancesTags(spec) ==
    << Tag("Name", spec.BootstrapParams.Name),
       Tag("GARM_POOL_ID", spec.BootstrapParams.PoolID),
       Tag("OSType", spec.BootstrapParams.OSType),
       Tag("OSArch", spec.BootstrapParams.OSArch),
       Tag("GARM_CONTROLLER_ID", SpecControllerID(spec)) >>

\* What becomes of a RunInstances request: the provider accepts it and the
\* client reads the response; the provider rejects it; or the provider
\* accepts it but the caller's context is cancelled before the response is
\* read, so the client gets an error although the instance exists.
LaunchOutcomes == {"accepted", "rejected", "cancelled"}

\* AwsCli.CreateRunningInstance; id is the ID the provider issues and
\* outcome what becomes of the RunInstances request
CreateRunningInstance(cl, spec, id, outcome) ==
    IF spec.isNil
    THEN [status |-> "error", err |-> "InvalidArgument", id |-> Empty,
          calls |-> <<>>, cloud |-> cl]
    ELSE LET tags == RunInstancesTags(spec)
             req == Request("RunInstances", tags)
             after == Append(cl, [InstanceId |-> id, Tags |-> tags,
                                  State |-> "pending"])
         IN  IF outcome = "rejected"
             THEN [status |-> "error", err |-> "ProviderError", id |-> Empty,
                   calls |-> <<req>>, cloud |-> cl]
             ELSE IF outcome = "cancelled"
             THEN [status |-> "error", err |-> "Canceled", id |-> Empty,
                   calls |-> <<req>>, cloud |-> after]
             ELSE [status |-> "ok", err |-> "none", id |-> id, calls |-> <<req>>,
                   cloud |-> after]

(***************************************************************************)
(* AwsProvider: the operations the orchestrator calls.                     *)
(***************************************************************************)
NoRecord == [isNil |-> TRUE]

\* a create that answers a failed launch with a second launch request
CreateFailedRetries(run) ==
    [status |-> "error", err |-> run.err, ret |-> NoRecord,
     calls |-> run.calls \o run.calls, cloud |-> run.cloud]

\* what CreateInstance returns when CreateRunningInstance failed: the error,
\* with no further request
CreateFailed(run) ==
    [status |-> "error", err |-> run.err, ret |-> NoRecord,
     calls |-> run.calls, cloud |-> run.cloud]

\* the params.ProviderInstance CreateInstance returns after a launch
CreatedRecord(spec, instanceID) ==
    [isNil |-> FALSE,
     ProviderID |-> instanceID,
     Name |-> spec.BootstrapParams.Name,
     OSType |-> spec.BootstrapParams.OSType,
     OSArch |-> spec.BootstrapParams.OSArch,
     Status |-> "running"]

\* AwsProvider.CreateInstance
CreateInstance(cl, cfg, ctrl, bootstrapParams, env, id, outcome) ==
    IF bootstrapParams.OSArch # Amd64
    THEN [status |-> "error", err |-> "UnsupportedArch", ret |-> NoRecord,
          calls |-> <<>>, cloud |-> cl]
    ELSE LET built == GetRunnerSpecFromBootstrapParams(cfg, bootstrapParams,
                                                       ctrl, env)
         IN  IF built.err # "none"
             THEN [status |-> "error", err |-> built.err, ret |-> NoRecord,
                   calls |-> <<>>, cloud |-> cl]
             ELSE LET run == CreateRunningInstance(cl, built.spec, id, outcome)
                  IN  IF run.status # "ok"
                      THEN CreateFailed(run)
                      ELSE [status |-> "ok", err |-> "none",
                            ret |-> CreatedRecord(built.spec, run.id),
                            calls |-> run.calls, cloud |-> run.cloud]

\* the tag filter DeleteInstance hands to FindInstanceByTags
DeleteTags(ctrl, instance) ==
    [k \in {"GARM_CONTROLLER_ID", "Name"} |->
        IF k = "GARM_CONTROLLER_ID" THEN Empty ELSE instance]

\* a delete that does not read the error of the terminate request
TerminateErrorIgnored(term) == "none"

\* the error DeleteInstance takes from awsCli.TerminateInstance
TerminateError(term) == term.err

\* the tail of DeleteInstance, once the instance ID is determined
DeleteResolved(cl, inst, lookup, failTerminate) ==
    IF inst = Empty
    THEN [status |-> "ok", err |-> "none", ret |-> NoRecord,
          calls |-> lookup, cloud |-> cl, inst |-> inst]
    ELSE LET term == TerminateInstance(cl, inst, failTerminate)
             err == TerminateError(term)
         IN  [status |-> IF err = "none" THEN "ok" ELSE "error", err |-> err,
              ret |-> NoRecord,
              calls |-> lookup \o term.calls, cloud |-> term.cloud,
              inst |-> inst]

\* AwsProvider.DeleteInstance, up to the point where it waits for the
\* provider a second time.  On an identifier with the prefix "i-" that is the
\* whole call (one terminate request).  On a logical name it is the tag
\* lookup: the call ends there on an error or a panic, and otherwise stands
\* with status "pending" and the instance ID it found in `inst`, its
\* terminate request not yet sent (see DeleteTerminate).
DeleteInstance(cl, ctrl, instance, order, failDescribe, failTerminate) ==
    IF HasPrefix(instance, IdPrefix)
    THEN [DeleteResolved(cl, instance, <<>>, failTerminate) EXCEPT !.inst = instance]
    ELSE LET tmp == FindInstanceByTags(cl, DeleteTags(ctrl, instance),
                                       order, failDescribe)
         IN  IF tmp.status = "panic"
             THEN [status |-> "panic", err |-> tmp.err, ret |-> NoRecord,
                   calls |-> tmp.calls, cloud |-> cl, inst |-> Empty]
             ELSE IF tmp.err = "NotFound"
             THEN [status |-> "ok", err |-> "none", ret |-> NoRecord,
                   calls |-> tmp.calls, cloud |-> cl, inst |-> Empty]
             ELSE IF tmp.err # "none"
             THEN [status |-> "error", err |-> tmp.err, ret |-> NoRecord,
                   calls |-> tmp.calls, cloud |-> cl, inst |-> Empty]
             ELSE [status |-> "pending", err |-> "none", ret |-> NoRecord,
                   calls |-> tmp.calls, cloud |-> cl,
                   inst |-> tmp.inst.InstanceId]

\* AwsProvider.Stop; force is not passed on
Stop(cl, instance, force, fail) ==
    LET out == StopInstance(cl, instance, fail)
    IN  [status |-> out.status, err |-> out.err, ret |-> NoRecord,
         calls |-> out.calls, cloud |-> out.cloud]

\* AwsProvider.Start
Start(cl, instance, fail) ==
    LET out == StartInstance(cl, instance, fail)
    IN  [status |-> out.status, err |-> out.err, ret |-> NoRecord,
         calls |-> out.calls, cloud |-> out.cloud]

\* the params.ProviderInstance built from a described instance; the fields
\* read from Platform, Architecture and PlatformDetails are not modelled
ProviderInstance(awsInstance, name) ==
    [isNil |-> FALSE,
     ProviderID |-> awsInstance.InstanceId,
     Name |-> name,
     Status |-> awsInstance.State]

\* AwsProvider.GetInstance
GetInstance(cl, instance, order, fail) ==
    LET got == CliGetInstance(cl, instance, order, fail)
    IN  IF got.err # "none"
        THEN [status |-> "error", err |-> got.err, ret |-> NoRecord,
              calls |-> got.calls, cloud |-> cl]
        ELSE IF Len(got.inst.Tags) = 0
        \* awsInstance.Tags[0] on an instance without tags
        THEN [status |-> "panic", err |-> "IndexOutOfRange", ret |-> NoRecord,
              calls |-> got.calls, cloud |-> cl]
        ELSE [status |-> "ok", err |-> "none",
              ret |-> ProviderInstance(got.inst, got.inst.Tags[1].Value),
              calls |-> got.calls, cloud |-> cl]

\* AwsProvider.ListInstances
ListInstances(cl, poolID, order, fail) ==
    LET listed == ListDescribedInstances(cl, poolID, order, fail)
    IN  IF listed.err # "none"
        THEN [status |-> "error", err |-> listed.err, ret |-> <<>>,
              calls |-> listed.calls, cloud |-> cl]
        ELSE [status |-> "ok", err |-> "none",
              ret |-> [i \in 1..Len(listed.insts) |->
                         ProviderInstance(listed.insts[i],
                            IF Len(listed.insts[i].Tags) > 0
                            THEN listed.insts[i].Tags[1].Value ELSE Empty)],
              calls |-> listed.calls, cloud |-> cl]

(***************************************************************************)
(* Inputs.                                                                 *)
(***************************************************************************)
BootstrapInstance(name, pool, os, arch, extra) ==
    [Name |-> name, PoolID |-> pool, OSType |-> os, OSArch |-> arch,
     ExtraSpecs |-> extra]

\* outcomes of cloudconfig.GetCloudConfig: an error, or the text produced
GenFails == [err |-> TRUE, out |-> Empty]
GenYields(bytes) == [err |-> FALSE, out |-> bytes]

\* the provider's configuration, as NewConfig validates it (region not empty)
ProviderCfg == [Region |-> <<"e", "u">>, VpcID |-> <<"v", "1">>]

\* bootstrap requests the orchestrator sends in the lifecycle specification
Requests ==
    { BootstrapInstance(<<"r", "1">>, <<"p", "A">>, Linux, Amd64, NoExtraSpecs),
      BootstrapInstance(<<"r", "2">>, <<"p", "B">>, Darwin, Amd64, NoExtraSpecs),
      BootstrapInstance(<<"r", "2">>, <<"p", "A">>, Windows, Arm64, NoExtraSpecs) }

\* the request another controller's provider sends on the shared account
OtherRequest ==
    BootstrapInstance(<<"r", "1">>, <<"p", "A">>, Linux, Amd64, NoExtraSpecs)

\* outcomes of the two external calls of Build in the lifecycle specification
EnvOk == [toolsFound |-> TRUE, gen |-> GenYields(<<35, 33>>)]
LifecycleEnvs ==
    { EnvOk, [EnvOk EXCEPT !.toolsFound = FALSE], [EnvOk EXCEPT !.gen = GenFails] }

InstanceIds == { InstanceId(k) : k \in 1..MaxInstances }

\* identifiers the orchestrator hands to DeleteInstance
Identifiers == Names \cup InstanceIds

(***************************************************************************)
(* The record of a call kept in `last` until the call returns, and the     *)
(* summary kept of it in `prev` from its return to the start of the next   *)
(* call.  follows relates a call to the *)
(* one before it: "repeat" (DeleteInstance on the same logical name),      *)
(* "created" (GetInstance on the ID the preceding CreateInstance returned) *)
(* or "none".                                                              *)
(***************************************************************************)
NoCall ==
    [op |-> "none", arg |-> Empty, status |-> "none",
     err |-> "none", ret |-> NoRecord, calls |-> <<>>, failed |-> FALSE,
     faults |-> {}, found |-> Empty, follows |-> "none", firstStatus |-> "none"]

NoSummary == [kind |-> "none", arg |-> Empty, status |-> "none"]

Summary(l) ==
    IF l.op = "DeleteInstance" /\ ~HasPrefix(l.arg, IdPrefix) /\ l.status # "error"
    THEN [kind |-> "deleted", arg |-> l.arg, status |-> l.status]
    ELSE IF l.op = "CreateInstance" /\ l.status = "ok"
    THEN [kind |-> "created", arg |-> l.ret.ProviderID, status |-> l.status]
    ELSE NoSummary

Follows(op, arg) ==
    IF op = "DeleteInstance" /\ prev.kind = "deleted" /\ prev.arg = arg
    THEN "repeat"
    ELSE IF op = "GetInstance" /\ prev.kind = "created" /\ prev.arg = arg
    THEN "created"
    ELSE "none"

\* the API requests the provider fails during a DeleteInstance call
Faults(failDescribe, failTerminate) ==
    (IF failDescribe THEN {"DescribeInstances"} ELSE {})
        \cup (IF failTerminate THEN {"TerminateInstances"} ELSE {})

Called(op, arg, out, failed) ==
    LET f == Follows(op, arg)
    IN  [op |-> op, arg |-> arg, status |-> out.status,
         err |-> out.err, ret |-> out.ret, calls |-> out.calls,
         failed |-> failed, faults |-> {}, found |-> Empty, follows |-> f,
         firstStatus |-> IF f = "none" THEN "none" ELSE prev.status]

Idle == last = NoCall

\* a DeleteInstance call has its lookup answered and its terminate request
\* not yet sent
BetweenRequests == last.op = "DeleteInstance" /\ last.status = "pending"

\* the account can change: no call is running, or the running call is
\* waiting between two requests
CloudFree == Idle \/ BetweenRequests

\* history: the instance id was launched by the provider of controller ctrl
\* for the bootstrap request data
Launch(id, ctrl, data) == [id |-> id, ctrl |-> ctrl, data |-> data]

(***************************************************************************)
(* Lifecycle specification: one provider, constructed with controllerID,   *)
(* on an account it shares with another controller, which runs the same    *)
(* provider code.                                                          *)
(***************************************************************************)
NoInput == [isNil |-> TRUE]
NotBuilt == [err |-> "pending", spec |-> NoSpec]
NoProcs == [isNil |-> TRUE]

\* the controller ID the orchestrator hands to NewAwsProvider in the
\* lifecycle specification, and the ID of the controller sharing the account
OwnController == <<"c", "1">>
OtherController == <<"c", "2">>

\* NewAwsProvider
Init ==
    /\ controllerID = OwnController
    /\ cloud = <<>>
    /\ nextId = 1
    /\ launched = {}
    /\ last = NoCall
    /\ prev = NoSummary
    /\ bIn = NoInput
    /\ bOut = NotBuilt
    /\ procs = NoProcs

CallCreateInstance ==
    \E data \in Requests, env \in LifecycleEnvs, outcome \in LaunchOutcomes :
        /\ Idle
        /\ nextId <= MaxInstances
        /\ LET out == CreateInstance(cloud, ProviderCfg, controllerID, data, env,
                                     InstanceId(nextId), outcome)
               grew == Len(out.cloud) > Len(cloud)
           IN  /\ cloud' = out.cloud
               /\ nextId' = IF grew THEN nextId + 1 ELSE nextId
               /\ launched' = IF grew
                              THEN launched \cup {Launch(InstanceId(nextId),
                                                         controllerID, data)}
                              ELSE launched
               /\ last' = Called("CreateInstance", data, out,
                                 outcome # "accepted")
        /\ prev' = NoSummary
        /\ UNCHANGED <<procs, controllerID, bIn, bOut>>

CallDeleteInstance ==
    \E instance \in Identifiers, order \in TagOrders,
       failDescribe \in BOOLEAN, failTerminate \in BOOLEAN :
        /\ Idle
        /\ LET out == DeleteInstance(cloud, controllerID, instance, order,
                                     failDescribe, failTerminate)
           IN  \* a fault is drawn only for a request this step can make, and
               \* a tag order only for a response the provider gives
               /\ IF HasPrefix(instance, IdPrefix)
                  THEN ~failDescribe /\ order = 0
                  ELSE ~failTerminate /\ (failDescribe => order = 0)
               /\ cloud' = out.cloud
               /\ last' = [Called("DeleteInstance", instance, out,
                                  failDescribe \/ failTerminate)
                             EXCEPT !.faults = Faults(failDescribe, failTerminate),
                                    !.found = out.inst]
        /\ prev' = NoSummary
        /\ UNCHANGED <<procs, controllerID, nextId, launched, bIn, bOut>>

\* DeleteInstance on a logical name, second round trip: the terminate
\* request for the instance the lookup found, on the account as it is now
DeleteTerminate ==
    \E failTerminate \in BOOLEAN :
        /\ BetweenRequests
        /\ LET out == DeleteResolved(cloud, last.found, last.calls, failTerminate)
           IN  /\ cloud' = out.cloud
               /\ last' = [last EXCEPT !.status = out.status, !.err = out.err,
                                       !.calls = out.calls,
                                       !.failed = failTerminate,
                                       !.faults = Faults(FALSE, failTerminate)]
        /\ prev' = NoSummary
        /\ UNCHANGED <<procs, controllerID, nextId, launched, bIn, bOut>>

CallStop ==
    \E instance \in InstanceIds, force \in BOOLEAN, fail \in BOOLEAN :
        /\ Idle
        /\ LET out == Stop(cloud, instance, force, fail)
           IN  /\ cloud' = out.cloud
               /\ last' = Called("Stop", instance, out, fail)
        /\ prev' = NoSummary
        /\ UNCHANGED <<procs, controllerID, nextId, launched, bIn, bOut>>

CallStart ==
    \E instance \in InstanceIds, fail \in BOOLEAN :
        /\ Idle
        /\ LET out == Start(cloud, instance, fail)
           IN  /\ cloud' = out.cloud
               /\ last' = Called("Start", instance, out, fail)
        /\ prev' = NoSummary
        /\ UNCHANGED <<procs, controllerID, nextId, launched, bIn, bOut>>

CallGetInstance ==
    \E instance \in InstanceIds, order \in TagOrders, fail \in BOOLEAN :
        /\ Idle
        /\ fail => order = 0
        /\ LET out == GetInstance(cloud, instance, order, fail)
           IN  last' = Called("GetInstance", instance, out, fail)
        /\ prev' = NoSummary
        /\ UNCHANGED <<procs, controllerID, cloud, nextId, launched, bIn, bOut>>

CallListInstances ==
    \E poolID \in Pools, order \in TagOrders, fail \in BOOLEAN :
        /\ Idle
        /\ fail => order = 0
        /\ LET out == ListInstances(cloud, poolID, order, fail)
           IN  last' = Called("ListInstances", poolID, out, fail)
        /\ prev' = NoSummary
        /\ UNCHANGED <<procs, controllerID, cloud, nextId, launched, bIn, bOut>>

\* AwsCli.FindInstanceByTags called with a filter of the caller's choosing
FindTags(c, n) ==
    [k \in {"GARM_CONTROLLER_ID", "Name"} |->
        IF k = "GARM_CONTROLLER_ID" THEN c ELSE n]

CallFindInstanceByTags ==
    \E c \in Controllers, n \in Names, order \in TagOrders, fail \in BOOLEAN :
        /\ Idle
        /\ fail => order = 0
        /\ LET found == FindInstanceByTags(cloud, FindTags(c, n), order, fail)
               out == [status |-> found.status, err |-> found.err,
                       ret |-> found.inst, calls |-> found.calls]
           IN  last' = Called("FindInstanceByTags", FindTags(c, n), out, fail)
        /\ prev' = NoSummary
        /\ UNCHANGED <<procs, controllerID, cloud, nextId, launched, bIn, bOut>>

\* the other controller's provider runs CreateInstance on the same account
\* and its launch is accepted
OtherControllerCreates ==
    /\ CloudFree
    /\ nextId <= MaxInstances
    /\ cloud' = CreateInstance(cloud, ProviderCfg, OtherController, OtherRequest,
                               EnvOk, InstanceId(nextId), "accepted").cloud
    /\ nextId' = nextId + 1
    /\ launched' = launched \cup {Launch(InstanceId(nextId), OtherController,
                                         OtherRequest)}
    /\ UNCHANGED <<procs, controllerID, last, prev, bIn, bOut>>

\* the provider completes a state transition it accepted earlier
OnProgress ==
    [s \in States |->
        IF s = "pending" THEN "running"
        ELSE IF s = "shutting-down" THEN "terminated"
        ELSE IF s = "stopping" THEN "stopped"
        ELSE s]

CloudProgress ==
    \E i \in 1..Len(cloud) :
        /\ CloudFree
        /\ cloud[i].State \in {"pending", "shutting-down", "stopping"}
        /\ cloud' = Transition(cloud, cloud[i].InstanceId, OnProgress)
        /\ UNCHANGED <<procs, controllerID, nextId, launched, last, prev, bIn, bOut>>

\* the provider stops listing an instance some time after its termination
CloudForget ==
    \E i \in 1..Len(cloud) :
        /\ CloudFree
        /\ cloud[i].State = "terminated"
        /\ cloud' = SubSeq(cloud, 1, i - 1) \o SubSeq(cloud, i + 1, Len(cloud))
        /\ launched' = { l \in launched : l.id # cloud[i].InstanceId }
        /\ UNCHANGED <<procs, controllerID, nextId, last, prev, bIn, bOut>>

\* the call returns to the orchestrator
Return ==
    /\ ~Idle
    /\ ~BetweenRequests
    /\ prev' = Summary(last)
    /\ last' = NoCall
    /\ UNCHANGED <<procs, controllerID, cloud, nextId, launched, bIn, bOut>>

Next ==
    \/ CallCreateInstance
    \/ CallDeleteInstance
    \/ DeleteTerminate
    \/ CallStop
    \/ CallStart
    \/ CallGetInstance
    \/ CallListInstances
    \/ CallFindInstanceByTags
    \/ Return
    \/ OtherControllerCreates
    \/ CloudProgress
    \/ CloudForget

Spec == Init /\ [][Next]_vars

(***************************************************************************)
(* Lookup specification: FindInstanceByTags on accounts drawn from bounded *)
(* sets.  The instances are whatever the account holds: their tags are     *)
(* those of the DescribeInstances response, set by whoever launched them.  *)
(***************************************************************************)
\* an instance of a DescribeInstances response, tagged ctrl and name
ListedInstance(id, ctrl, name) ==
    [InstanceId |-> id,
     Tags |-> << Tag("Name", name),
                 Tag("GARM_POOL_ID", <<"p", "A">>),
                 Tag("OSType", Linux),
                 Tag("OSArch", Amd64),
                 Tag("GARM_CONTROLLER_ID", ctrl) >>,
     State |-> "running"]

\* the accounts of at most MaxInstances instances, the k-th being "i-<k>"
Accounts ==
    UNION { { [k \in 1..n |-> ListedInstance(InstanceId(k), c[k], m[k])] :
                c \in [1..n -> Controllers], m \in [1..n -> Names] } :
            n \in 0..MaxInstances }

InitFind ==
    /\ controllerID = OwnController
    /\ cloud \in Accounts
    /\ nextId = Len(cloud) + 1
    /\ launched = {}
    /\ last = NoCall
    /\ prev = NoSummary
    /\ bIn = NoInput
    /\ bOut = NotBuilt
    /\ procs = NoProcs

NextFind == CallFindInstanceByTags

SpecFind == InitFind /\ [][NextFind]_vars

(***************************************************************************)
(* Build specification: one call of GetRunnerSpecFromBootstrapParams on    *)
(* inputs drawn from bounded sets.                                         *)
(***************************************************************************)
Overrides == (0 - 1)..MaxOverride

ExtraSpecsInputs ==
    { NoExtraSpecs, BadExtraSpecs } \cup
    { ExtraSpecsObject([MinCount |-> mn, MaxCount |-> mx, VpcID |-> v,
                        OpenInboundPorts |-> ports, BlockDeviceMapping |-> bdm]) :
        mn \in Overrides, mx \in Overrides, v \in {Empty, <<"v", "2">>},
        ports \in {{}, {<<"tcp", 22>>}}, bdm \in {Empty, <<"[", "]">>} }

BuildInputs ==
    { [cfg |-> [Region |-> region, VpcID |-> <<"v", "1">>],
       data |-> BootstrapInstance(name, <<"p", "A">>, os, Amd64, extra),
       env |-> [toolsFound |-> t, gen |-> g]] :
        region \in Regions, name \in {Empty, <<"r", "1">>}, os \in OSTypes,
        extra \in ExtraSpecsInputs, t \in BOOLEAN,
        g \in {GenFails, GenYields(Empty), GenYields(<<35>>),
               GenYields(<<35, 33, 47, 98>>)} }

InitBuild ==
    /\ controllerID \in Controllers
    /\ cloud = <<>>
    /\ nextId = 1
    /\ launched = {}
    /\ last = NoCall
    /\ prev = NoSummary
    /\ bIn \in BuildInputs
    /\ bOut = NotBuilt
    /\ procs = NoProcs

Build ==
    /\ bOut = NotBuilt
    /\ bOut' = GetRunnerSpecFromBootstrapParams(bIn.cfg, bIn.data,
                                                controllerID, bIn.env)
    /\ UNCHANGED <<procs, controllerID, cloud, nextId, launched, last, prev, bIn>>

NextBuild == Build

SpecBuild == InitBuild /\ [][NextBuild]_vars

(***************************************************************************)
(* Concurrent specification: the orchestrator runs two CreateInstance      *)
(* calls on one provider at the same time.  Each call is a goroutine       *)
(* stepping through the body of CreateInstance: the architecture check and *)
(* the spec builder, then the launch request, then the return.  procs.call *)
(* holds each call's position and locals, procs.spec the RunnerSpec each   *)
(* call holds, procs.clock the number of steps taken so far.               *)
(***************************************************************************)
Procs == 1..2

\* bootstrap requests of the concurrent calls
ConcRequests ==
    { BootstrapInstance(<<"r", "1">>, <<"p", "A">>, Linux, Amd64, NoExtraSpecs),
      BootstrapInstance(<<"r", "2">>, <<"p", "A">>, Linux, Amd64, NoExtraSpecs),
      BootstrapInstance(<<"r", "1">>, <<"p", "B">>, Windows, Amd64, NoExtraSpecs),
      BootstrapInstance(<<"r", "2">>, <<"p", "B">>, Linux, Arm64, NoExtraSpecs) }

\* a call's locals on entry
Entered(req, env) ==
    [pc |-> "start", req |-> req, env |-> env, status |-> "none", err |-> "none",
     ret |-> NoRecord, calls |-> <<>>, id |-> Empty, builtAt |-> 0, launchedAt |-> 0]

\* a slot common to every call
SharedSlot(p) == 1

\* where the call p keeps its RunnerSpec: `spec` is a local variable of
\* CreateInstance, one per call
LocalOf(p) == p

InitConc ==
    /\ controllerID \in Controllers
    /\ cloud = <<>>
    /\ nextId = 1
    /\ launched = {}
    /\ last = NoCall
    /\ prev = NoSummary
    /\ bIn = NoInput
    /\ bOut = NotBuilt
    /\ \E r1 \in ConcRequests, r2 \in ConcRequests, e1 \in LifecycleEnvs,
          e2 \in LifecycleEnvs :
          /\ r1 # r2
          /\ procs = [isNil |-> FALSE, clock |-> 0,
                      call |-> [p \in Procs |->
                                  IF p = 1 THEN Entered(r1, e1) ELSE Entered(r2, e2)],
                      spec |-> [p \in Procs |-> NoSpec]]

\* call p fails before any request: unsupported architecture or Build error
ConcReject(p) ==
    LET c == procs.call[p]
        built == GetRunnerSpecFromBootstrapParams(ProviderCfg, c.req, controllerID,
                                                  c.env)
    IN  /\ c.pc = "start"
        /\ c.req.OSArch # Amd64 \/ built.err # "none"
        /\ procs' = [procs EXCEPT
                !.clock = @ + 1,
                !.call[p] = [c EXCEPT !.pc = "done", !.status = "error",
                                      !.err = IF c.req.OSArch # Amd64
                                              THEN "UnsupportedArch" ELSE built.err]]
        /\ UNCHANGED <<controllerID, cloud, nextId, launched, last, prev, bIn, bOut>>

\* call p passes the architecture check and builds its RunnerSpec
ConcBuild(p) ==
    LET c == procs.call[p]
        built == GetRunnerSpecFromBootstrapParams(ProviderCfg, c.req, controllerID,
                                                  c.env)
    IN  /\ c.pc = "start"
        /\ c.req.OSArch = Amd64
        /\ built.err = "none"
        /\ procs' = [procs EXCEPT
                !.clock = @ + 1,
                !.spec[LocalOf(p)] = built.spec,
                !.call[p] = [c EXCEPT !.pc = "built", !.builtAt = procs.clock + 1]]
        /\ UNCHANGED <<controllerID, cloud, nextId, launched, last, prev, bIn, bOut>>

\* call p sends its launch request
ConcLaunch(p) ==
    \E outcome \in LaunchOutcomes :
        LET c == procs.call[p]
            run == CreateRunningInstance(cloud, procs.spec[LocalOf(p)],
                                         InstanceId(nextId), outcome)
            grew == Len(run.cloud) > Len(cloud)
        IN  /\ c.pc = "built"
            /\ cloud' = run.cloud
            /\ nextId' = IF grew THEN nextId + 1 ELSE nextId
            /\ launched' = IF grew
                           THEN launched \cup {Launch(InstanceId(nextId),
                                                      controllerID, c.req)}
                           ELSE launched
            /\ procs' = [procs EXCEPT
                    !.clock = @ + 1,
                    !.call[p] = [c EXCEPT !.pc = "launched", !.status = run.status,
                                          !.err = run.err, !.calls = run.calls,
                                          !.id = run.id,
                                          !.launchedAt = procs.clock + 1]]
            /\ UNCHANGED <<controllerID, last, prev, bIn, bOut>>

\* call p returns: the record of its instance, or the launch error
ConcReturn(p) ==
    LET c == procs.call[p]
    IN  /\ c.pc = "launched"
        /\ procs' = [procs EXCEPT
                !.clock = @ + 1,
                !.call[p] = [c EXCEPT
                    !.pc = "done",
                    !.status = IF c.status = "ok" THEN "ok" ELSE "error",
                    !.ret = IF c.status = "ok"
                            THEN CreatedRecord(procs.spec[LocalOf(p)], c.id)
                            ELSE NoRecord]]
        /\ UNCHANGED <<controllerID, cloud, nextId, launched, last, prev, bIn, bOut>>

NextConc ==
    \E p \in Procs :
        \/ ConcReject(p)
        \/ ConcBuild(p)
        \/ ConcLaunch(p)
        \/ ConcReturn(p)

SpecConc == InitConc /\ [][NextConc]_vars

(***************************************************************************)
(* Properties.                                                             *)
(***************************************************************************)
LaunchOf(id) == CHOOSE l \in launched : l.id = id

IsName(s) == ~HasPrefix(s, IdPrefix)

Matching(c, n) ==
    { i \in 1..Len(cloud) :
        HasTag(cloud[i], "GARM_CONTROLLER_ID", c) /\ HasTag(cloud[i], "Name", n) }

\* C1: DeleteInstance is idempotent on a logical name: when DeleteInstance(n)
\* is called twice in a row and the provider fails no request, both calls
\* return success, also when the second call's tag lookup matches nothing.
\* (Stated of a call that has come to its end.)
C1_DeleteTwiceSucceeds ==
    ( /\ last.op = "DeleteInstance"
      /\ ~BetweenRequests
      /\ IsName(last.arg)
      /\ last.follows = "repeat"
      /\ last.firstStatus # "error"
      /\ ~last.failed )
    => (last.firstStatus = "ok" /\ last.status = "ok")

\* C2: an instance FindInstanceByTags returns for the filter
\* {GARM_CONTROLLER_ID: c, Name: n} carries the controller tag c, and is an
\* instance the account lists with the tags c and n, whatever other
\* instances carry the Name n.
C2_FindStaysInController ==
    (last.op = "FindInstanceByTags" /\ last.status = "ok")
    => /\ HasTag(last.ret, "GARM_CONTROLLER_ID", last.arg["GARM_CONTROLLER_ID"])
       /\ \E i \in Matching(last.arg["GARM_CONTROLLER_ID"], last.arg["Name"]) :
              cloud[i].InstanceId = last.ret.InstanceId

\* a lookup succeeded although the account lists, before the instance
\* returned, an instance tagged with another controller ID and the same Name
C2_Witness ==
    /\ last.op = "FindInstanceByTags"
    /\ last.status = "ok"
    /\ Len(cloud) >= 2
    /\ HasTag(cloud[1], "Name", last.arg["Name"])
    /\ ~HasTag(cloud[1], "GARM_CONTROLLER_ID", last.arg["GARM_CONTROLLER_ID"])
    /\ last.ret.InstanceId # cloud[1].InstanceId

\* C3: when the describe call succeeds and no instance matches the filter,
\* FindInstanceByTags returns a NotFound error and does not panic.
C3_FindNothingIsNotFound ==
    ( /\ last.op = "FindInstanceByTags"
      /\ ~last.failed
      /\ Matching(last.arg["GARM_CONTROLLER_ID"], last.arg["Name"]) = {} )
    => (last.status = "error" /\ last.err = "NotFound")

\* the listed instances this provider created under the logical name n
CreatedHere(n) ==
    { i \in 1..Len(cloud) :
        /\ LaunchOf(cloud[i].InstanceId).ctrl = controllerID
        /\ LaunchOf(cloud[i].InstanceId).data.Name = n }

\* C4: DeleteInstance on the logical name n of a listed instance this
\* provider created looks it up with GARM_CONTROLLER_ID = controllerID and
\* Name = n and requests the termination of that instance; on an identifier
\* with the prefix "i-" it makes no lookup and requests the termination of
\* that identifier.
C4_DeleteReachesOwnInstance ==
    (last.op = "DeleteInstance" /\ ~BetweenRequests /\ ~last.failed)
    => IF HasPrefix(last.arg, IdPrefix)
       THEN last.calls = << Request("TerminateInstances", last.arg) >>
       ELSE \A i \in CreatedHere(last.arg) :
               (\A j \in CreatedHere(last.arg) : i <= j)
               => last.calls =
                    << Request("DescribeInstances",
                               { <<"GARM_CONTROLLER_ID", controllerID>>,
                                 <<"Name", last.arg>> }),
                       Request("TerminateInstances", cloud[i].InstanceId) >>

TagsOf(inst) == { inst.Tags[k] : k \in 1..Len(inst.Tags) }

ExpectedTags(l) ==
    { Tag("Name", l.data.Name),
      Tag("GARM_POOL_ID", l.data.PoolID),
      Tag("GARM_CONTROLLER_ID", l.ctrl),
      Tag("OSType", l.data.OSType),
      Tag("OSArch", l.data.OSArch) }

\* C5: in every reachable state, every listed instance this provider
\* launched carries the tags Name, GARM_POOL_ID, OSType and OSArch with the
\* values of the bootstrap request it was launched for, and
\* GARM_CONTROLLER_ID with the controller ID the provider was constructed
\* with.
C5_LaunchedInstancesTagged ==
    \A i \in 1..Len(cloud) :
        LaunchOf(cloud[i].InstanceId).ctrl = controllerID
        => ExpectedTags(LaunchOf(cloud[i].InstanceId)) \subseteq TagsOf(cloud[i])

InPool(poolID) ==
    { cloud[i].InstanceId : i \in { k \in 1..Len(cloud) :
                                      HasTag(cloud[k], "GARM_POOL_ID", poolID) } }

\* C6: when the provider answers the describe request, ListInstances(poolID)
\* succeeds and returns one record for each listed instance whose
\* GARM_POOL_ID tag is poolID and no other record; the empty sequence when
\* there is no such instance.
C6_ListExactlyPool ==
    (last.op = "ListInstances" /\ ~last.failed)
    => /\ last.status = "ok"
       /\ { last.ret[i].ProviderID : i \in 1..Len(last.ret) } = InPool(last.arg)
       /\ Len(last.ret) = Cardinality(InPool(last.arg))

\* a listing returned some of the listed instances and left out another pool's
C6_Witness ==
    /\ last.op = "ListInstances"
    /\ last.status = "ok"
    /\ Len(last.ret) >= 1
    /\ Len(last.ret) < Len(cloud)

\* C7: a successful CreateInstance for the name n returns a record with
\* Status "running" and Name n, and a GetInstance that follows it on the
\* returned provider ID returns a record whose Name is n and whose Status
\* is pending or running.
C7_CreateThenGet ==
    /\ (last.op = "CreateInstance" /\ last.status = "ok")
       => (last.ret.Status = "running" /\ last.ret.Name = last.arg.Name)
    /\ (last.op = "GetInstance" /\ last.follows = "created" /\ last.status = "ok")
       => /\ last.ret.Name = LaunchOf(last.arg).data.Name
          /\ last.ret.Status \in {"pending", "running"}

Built == bOut # NotBuilt

\* the extraSpecs value the request's extra_specs decode to
Decoded == bIn.data.ExtraSpecs.decoded

\* C8: for a bootstrap request whose OS type is neither Linux nor Windows
\* (its tools resolved and its extra specs well-formed), Build returns an
\* UnsupportedOSType error and no spec.
C8_UnsupportedOSTypeFails ==
    ( /\ Built
      /\ bIn.data.OSType \notin {Linux, Windows}
      /\ bIn.env.toolsFound
      /\ bIn.data.ExtraSpecs.kind # "malformed" )
    => (bOut.err = "UnsupportedOSType" /\ bOut.spec = NoSpec)

\* C9: every RunnerSpec Build returns without error for a Linux or Windows
\* request has non-empty UserData: when the user-data generator fails or
\* yields an empty payload, Build fails instead.
C9_UserDataNotEmpty ==
    (Built /\ bOut.err = "none" /\ bIn.data.OSType \in {Linux, Windows})
    => bOut.spec.UserData # Empty

\* the count MergeExtraSpecs leaves for an override: the override when it is
\* greater than 1, the default otherwise
MergedCount(override) == IF override > 1 THEN override ELSE DefaultCount

\* C10: starting from min_count = max_count = 1, for every override value
\* (0, 1 and negative values included) the min_count and max_count of the
\* spec Build returns are at least 1; each is the override when the override
\* is greater than 1 and stays 1 otherwise.
C10_MergeCountsMonotonic ==
    (Built /\ bOut.err = "none")
    => /\ bOut.spec.MinCount >= DefaultCount
       /\ bOut.spec.MaxCount >= DefaultCount
       /\ bOut.spec.MinCount = MergedCount(Decoded.MinCount)
       /\ bOut.spec.MaxCount = MergedCount(Decoded.MaxCount)

\* Build returned a spec for a negative min_count override and a max_count
\* override above 1
C10_Witness ==
    /\ Built
    /\ bOut.err = "none"
    /\ bIn.data.ExtraSpecs.kind = "object"
    /\ Decoded.MinCount < 0
    /\ Decoded.MaxCount > 1
    /\ bOut.spec.MaxCount = Decoded.MaxCount

\* C11: every RunnerSpec Build returns has MinCount <= MaxCount, for every
\* combination of min_count and max_count overrides in the extra specs.
C11_MinAtMostMax ==
    (Built /\ bOut.err = "none") => bOut.spec.MinCount <= bOut.spec.MaxCount

\* C12: when the configured region or the bootstrap request's name is empty
\* (its tools resolved and its extra specs well-formed), Build returns an
\* InvalidSpec error and no spec.
C12_BuildValidates ==
    ( /\ Built
      /\ bIn.env.toolsFound
      /\ bIn.data.ExtraSpecs.kind # "malformed"
      /\ (bIn.cfg.Region = Empty \/ bIn.data.Name = Empty) )
    => (bOut.err = "InvalidSpec" /\ bOut.spec = NoSpec)

\* C17: the RunnerSpec Build returns carries the open-inbound-ports map, the
\* block-device-mapping string and the network identifier that the extra
\* specs supply, and keeps the default (no ports, no mapping, the configured
\* VPC) for a value the extra specs leave out.
C17_OverridesMerged ==
    (Built /\ bOut.err = "none")
    => /\ bOut.spec.OpenInboundPorts = Decoded.OpenInboundPorts
       /\ bOut.spec.BlockDeviceMapping = Decoded.BlockDeviceMapping
       /\ bOut.spec.VpcID = IF Decoded.VpcID # Empty THEN Decoded.VpcID
                            ELSE bIn.cfg.VpcID

\* C13: when the describe call succeeds, GetInstance(id) returns a NotFound
\* error and no record if the provider lists no instance with that ID, and
\* the record of the listed instance with that ID otherwise.
C13_GetMissingIsNotFound ==
    (last.op = "GetInstance" /\ ~last.failed)
    => IF InstanceExists(cloud, last.arg)
       THEN last.status = "ok" /\ last.ret.ProviderID = last.arg
       ELSE last.status = "error" /\ last.err = "NotFound" /\ last.ret = NoRecord

\* GetInstance was asked for an ID the provider does not list, on an account
\* that lists other instances
C13_Witness ==
    /\ last.op = "GetInstance"
    /\ ~last.failed
    /\ Len(cloud) >= 1
    /\ ~InstanceExists(cloud, last.arg)
    /\ last.err = "NotFound"

\* the values the interface gives to an instance record's Status
StatusValues == {"pending", "running", "stopping", "stopped", "terminated", "unknown"}

\* C18: the Status of every record GetInstance or ListInstances returns is
\* one of pending, running, stopping, stopped, terminated, unknown, whatever
\* state the provider reports for the instance.
C18_StatusInRange ==
    /\ (last.op = "GetInstance" /\ last.status = "ok")
       => last.ret.Status \in StatusValues
    /\ (last.op = "ListInstances" /\ last.status = "ok")
       => \A i \in 1..Len(last.ret) : last.ret[i].Status \in StatusValues

\* the k-th API request of the call in `last` failed: the provider was set
\* to fail that API, or the request asks to terminate an instance the
\* provider does not list
RequestFailed(k) ==
    \/ last.calls[k].api \in last.faults
    \/ /\ last.calls[k].api = "TerminateInstances"
       /\ ~InstanceExists(cloud, last.calls[k].target)

\* the tag lookup of the call in `last` was answered and matched no instance
LookupMatchedNothing ==
    /\ IsName(last.arg)
    /\ Len(last.calls) = 1
    /\ ~RequestFailed(1)
    /\ \A i \in 1..Len(cloud) :
          \E f \in last.calls[1].target : ~HasTag(cloud[i], f[1], f[2])

\* C15: when an API request made by DeleteInstance fails, DeleteInstance
\* returns an error; it returns success only if its terminate request was
\* accepted or its tag lookup matched no instance.
C15_DeleteSwallowsNothing ==
    (last.op = "DeleteInstance")
    => /\ (\E k \in 1..Len(last.calls) : RequestFailed(k))
             => last.status = "error"
       /\ last.status = "ok"
             => \/ \E k \in 1..Len(last.calls) :
                      /\ last.calls[k].api = "TerminateInstances"
                      /\ ~RequestFailed(k)
                \/ LookupMatchedNothing

\* DeleteInstance on a logical name found the instance, and the provider
\* failed the terminate request
C15_Witness ==
    /\ last.op = "DeleteInstance"
    /\ IsName(last.arg)
    /\ Len(last.calls) = 2
    /\ "TerminateInstances" \in last.faults
    /\ last.status = "error"

\* C16: a CreateInstance call makes at most one API request, a RunInstances
\* request; when the launch fails or the caller cancels, the call returns an
\* error and no record, having made no second launch request and no
\* terminate or other request.
C16_CreateOneLaunchNoCleanup ==
    (last.op = "CreateInstance")
    => /\ Len(last.calls) <= 1
       /\ \A k \in 1..Len(last.calls) : last.calls[k].api = "RunInstances"
       /\ last.failed => (last.status = "error" /\ last.ret = NoRecord)

\* a CreateInstance call was cancelled after the provider accepted its
\* launch: it returned an error and the instance it launched is listed
C16_Witness ==
    /\ last.op = "CreateInstance"
    /\ last.err = "Canceled"
    /\ Len(last.calls) = 1
    /\ \E i \in 1..Len(cloud) :
          /\ cloud[i].Tags = last.calls[1].target
          /\ LaunchOf(cloud[i].InstanceId).data = last.arg
          /\ cloud[i].InstanceId = InstanceId(nextId - 1)

\* the call p has returned success
Succeeded(p) == procs.call[p].pc = "done" /\ procs.call[p].status = "ok"

\* the instance of the account with the given ID
InstanceOf(id) == cloud[CHOOSE i \in 1..Len(cloud) : cloud[i].InstanceId = id]

\* C14: under every interleaving of two CreateInstance calls for different
\* requests, a call that returns success has made exactly one launch request,
\* carrying its own name and pool ID; the provider ID it returns is that of
\* an instance launched for its own request and tagged with its own name and
\* pool ID, and the record it returns carries its own name; two successful
\* calls return different instances; every listed instance carries the name
\* and pool ID of the request it was launched for.
C14_ConcurrentCreatesIndependent ==
    ~procs.isNil
    => /\ \A p \in Procs :
            Succeeded(p)
            => LET c == procs.call[p]
               IN  /\ Len(c.calls) = 1
                   /\ c.calls[1].api = "RunInstances"
                   /\ Tag("Name", c.req.Name) \in
                         { c.calls[1].target[k] : k \in 1..Len(c.calls[1].target) }
                   /\ Tag("GARM_POOL_ID", c.req.PoolID) \in
                         { c.calls[1].target[k] : k \in 1..Len(c.calls[1].target) }
                   /\ InstanceExists(cloud, c.ret.ProviderID)
                   /\ LaunchOf(c.ret.ProviderID).data = c.req
                   /\ HasTag(InstanceOf(c.ret.ProviderID), "Name", c.req.Name)
                   /\ HasTag(InstanceOf(c.ret.ProviderID), "GARM_POOL_ID",
                             c.req.PoolID)
                   /\ c.ret.Name = c.req.Name
       /\ (Succeeded(1) /\ Succeeded(2))
            => procs.call[1].ret.ProviderID # procs.call[2].ret.ProviderID
       /\ \A i \in 1..Len(cloud) :
            LET l == LaunchOf(cloud[i].InstanceId)
            IN  /\ HasTag(cloud[i], "Name", l.data.Name)
                /\ HasTag(cloud[i], "GARM_POOL_ID", l.data.PoolID)

\* both calls returned success after overlapping: the first call built its
\* spec before the second did and sent its launch request after the second
C14_Witness ==
    /\ ~procs.isNil
    /\ Succeeded(1)
    /\ Succeeded(2)
    /\ procs.call[1].builtAt < procs.call[2].builtAt
    /\ procs.call[2].launchedAt < procs.call[1].launchedAt
    /\ procs.call[1].req.Name # procs.call[2].req.Name

====
